---- MODULE Spec2Model ----
(***************************************************************************)
(* xk6-mcp: a k6 extension driving an MCP peer.  The repository holds     *)
(* three revisions of the client session:                                 *)
(*   - Module  (src/mcp.go 409-697): Connect / ListTools / CallTool on a  *)
(*     module instance that stores the session handle, with a             *)
(*     "must call Connect() first" check and per-instance metrics;        *)
(*   - Client, revision "mcp" (src/mcp.go 699-1172): constructors         *)
(*     StdioClient / SSEClient / StreamableHTTPClient, the seven RPC      *)
(*     methods and the three ListAll aggregators, instrumented by the     *)
(*     free function pushRequestMetrics over the global mcp_metrics;      *)
(*   - Client, revision "part" (src/unnamed/part_000): the same Client    *)
(*     instrumented by metrics.K6Metrics.Push (src/metrics/metrics.go),   *)
(*     with one aggregate-level Push after the ListAll loop.              *)
(* One script thread issues the calls one after the other; a call is a    *)
(* sequence of steps cut at its blocking points (the awaited response,    *)
(* each blocking send into the samples channel).                          *)
(***************************************************************************)
EXTENDS Integers, Sequences, FiniteSets, TLC

VARIABLES
    revision,    \* which revision of Client runs: "mcp" or "part"
    inVU,        \* vu.State() != nil (the script runs in a VU context)
    ctxDone,     \* vu.Context() is cancelled
    vuTags,      \* vu.State().Tags: the tag set currently in effect in the VU
    mcp_metrics, \* the package variable mcp_metrics: the registry its handles come from
    mSession,    \* Module.session: NilSession or a session handle
    mFailed,     \* a handshake of Module.Connect has failed (history)
    client,      \* the Client object the script holds (NoClient before construction)
    handshakes,  \* number of handshakes (mcp.Client.Connect) performed over a transport
    transports,  \* number of mcp transports constructed
    sink,        \* vu.State().Samples: the number of samples buffered in the channel
    call,        \* the call in progress (pc = "idle" when none)
    ret,         \* the last call that returned, with its result
    ncalls       \* number of calls the script has issued

vars == <<revision, mcp_metrics, inVU, ctxDone, vuTags, mSession, mFailed, client, handshakes, transports,
          sink, call, ret, ncalls>>

-----------------------------------------------------------------------------
(* Bounds of the model *)

MaxCalls == 2        \* calls issued by the script
MaxPages == 2        \* pages of one aggregate call that may carry items
SinkCap  == 4        \* capacity of the samples channel

-----------------------------------------------------------------------------
(* Values *)

NilSession == 0
RootTags == "t0"                     \* the tag set a VU starts with
TagSets == {RootTags, "t1"}

\* Metric registries (vu.InitEnv().Registry).  A registry hands out one metric
\* per name, so the handles of a module instance are named by its registry.
Registries == {"r1", "r2"}

\* The registry of the module instance whose script is followed.
OwnRegistry == "r1"

\* ClientConfig: Path, BaseURL, Auth.BearerToken, Env (name/value pairs).
NoToken == ""
DefaultConfig == [path |-> "server", baseURL |-> "http://peer", token |-> NoToken, env |-> {}]
Configs ==
    { DefaultConfig,
      [path |-> "", baseURL |-> "", token |-> NoToken, env |-> {}],
      [path |-> "server", baseURL |-> "http://peer", token |-> "T", env |-> {<<"A", "1">>}],
      [path |-> "server", baseURL |-> "http://peer", token |-> NoToken,
       env |-> {<<"A", "1">>, <<"PATH", "/x">>}] }

\* os.Environ() of the k6 process.
BaseEnv == {<<"PATH", "/bin">>, <<"HOME", "/h">>}

\* HTTP client objects: none (stdio), the client built on the k6 transport, and
\* the client oauth2.NewClient builds around another one.
NoHTTP == [kind |-> "none", token |-> NoToken]
BaseHTTPClient == [kind |-> "base", token |-> NoToken]

NoClient == [session |-> NilSession, k6State |-> FALSE, kind |-> "none", tags |-> RootTags,
             http |-> NoHTTP, cfg |-> DefaultConfig]

Cursors == {"", "a", "b"}
NIL == "nil"                         \* a nil *mcp.Tool / *mcp.Resource / *mcp.Prompt
\* The item lists a page may carry: none, one, a nil entry, two in either order.
PageItems == {<<>>, <<"x">>, <<NIL, "y">>, <<"y", "x">>}
Pages == [items : PageItems, next : Cursors]
EmptyPages == [items : {<<>>}, next : Cursors]
NoPage == [items |-> <<>>, next |-> ""]

ModuleOps == {"Connect", "ListTools", "CallTool"}
Constructors == {"StdioClient", "SSEClient", "StreamableHTTPClient"}
ListOps == {"ListTools", "ListResources", "ListPrompts"}
SingleOps == {"CallTool", "ReadResource", "GetPrompt"}
RpcOps == ListOps \cup SingleOps \cup {"Ping"}
ListAllOps == {"ListAllTools", "ListAllResources", "ListAllPrompts"}

-----------------------------------------------------------------------------
(* Method names: the "method" tag of a sample *)

connectMethodName == "connect"
listToolsMethodName == "tools/list"
callToolMethodName == "tools/call"
listResourcesMethodName == "resources/list"
readResourceMethodName == "resources/read"
listPromptsMethodName == "prompts/list"
getPromptMethodName == "prompts/get"

\* The method name each operation passes to the recorder for one request.
MethodName(op) ==
    CASE op = "Connect" -> connectMethodName
      [] op \in {"ListTools", "ListAllTools"} -> listToolsMethodName
      [] op = "CallTool" -> callToolMethodName
      [] op \in {"ListResources", "ListAllResources"} -> listResourcesMethodName
      [] op = "ReadResource" -> readResourceMethodName
      [] op \in {"ListPrompts", "ListAllPrompts"} -> listPromptsMethodName
      [] op = "GetPrompt" -> getPromptMethodName
      [] OTHER -> "none"

\* A sample: its metric, its tag set (the "method" tag and the other tags) and
\* its value (the elapsed milliseconds, or 1).
Sample(metric, method, tags) ==
    [metric |-> metric, method |-> method, tags |-> tags,
     value |-> IF metric \in {"mcp_request_duration", "mcp_request_errors_duration"}
               THEN "ms" ELSE "1"]

-----------------------------------------------------------------------------
(* The recorders *)

\* pushRequestMetrics(client, method, duration, err), revision "mcp".
pushRequestMetrics(method, err, tags) ==
    <<Sample("mcp_request_duration", method, tags),
      Sample("mcp_request_count", method, tags)>>
    \o (IF err THEN <<Sample("mcp_request_errors", method, tags)>> ELSE <<>>)

\* Mutant: the recorder of Module does not look for the VU state.
ModulePushRequestMetricsUnguarded(vuState, method, err, tags) ==
    <<Sample("mcp_request_duration", method, tags),
      Sample("mcp_request_count", method, tags)>>
    \o (IF err THEN <<Sample("mcp_request_errors", method, tags)>> ELSE <<>>)

\* (*Module).pushRequestMetrics: nothing without a VU state.
ModulePushRequestMetrics(vuState, method, err, tags) ==
    IF ~vuState THEN <<>>
    ELSE <<Sample("mcp_request_duration", method, tags),
           Sample("mcp_request_count", method, tags)>>
         \o (IF err THEN <<Sample("mcp_request_errors", method, tags)>> ELSE <<>>)

\* (*K6Metrics).Push, revision "part".
K6MetricsPush(method, err, tags) ==
    <<Sample("mcp_request_duration", method, tags),
      Sample("mcp_request_count", method, tags)>>
    \o (IF err
        THEN <<Sample("mcp_request_errors", method, tags),
               Sample("mcp_request_errors_duration", method, tags)>>
        ELSE <<>>)

-----------------------------------------------------------------------------
(* Contexts *)

\* The context a request is issued with: "vu" is vu.Context() (Client.ctx),
\* "background" is context.Background(), which is never cancelled.
RequestCtx(target, rev, op) ==
    IF target = "Module" THEN "background"              \* (*MCP).getContext
    ELSE IF op \in Constructors THEN "vu"               \* connect: m.vu.Context()
    ELSE IF rev = "mcp" THEN "vu"                       \* c.ctx in every method
    ELSE IF op = "CallTool" THEN "vu"                   \* part_000: c.ctx
    ELSE "background"                                   \* part_000: context.Background()

\* The context PushIfNotDone is given.
PushCtx(target) == IF target = "Module" THEN "background" ELSE "vu"

CtxIsDone(ctx, done) == ctx = "vu" /\ done

-----------------------------------------------------------------------------
(* The session checks of Module *)

\* Mutant: Connect never notices the stored session.
AlreadyConnectedNever(session) == FALSE

\* Connect: "Check if we are already connected" (m.session != nil).
AlreadyConnected(session) == session # NilSession

\* Mutant: Connect on a connected session is rejected.
AlreadyConnectedRejected == [kind |-> "err", error |-> "state"]

\* Connect: what the early return gives back (return nil).
AlreadyConnectedResult == [kind |-> "ok", error |-> "none"]

\* Mutant: the RPC methods never check the session.
MustConnectNever(session) == FALSE

\* Mutant: the check is inverted, calls are rejected on a stored session only.
MustConnectInverted(session) == session # NilSession

\* ListTools / CallTool: m.session == nil -> "must call `Connect()` before ...".
MustConnect(session) == session = NilSession

\* Mutant: the session is stored before the error is looked at.
SessionAfterConnectAlways(session, err, new) == new

\* Connect, after the handshake: if err != nil { return err }; m.session = session
SessionAfterConnect(session, err, new) == IF err THEN session ELSE new

\* Mutant: the token is written into the client that was handed in.
oauth2NewClientInPlace(httpClient, token) ==
    [kind |-> "oauth2", inner |-> [httpClient EXCEPT !.token = token], token |-> token]

\* oauth2.NewClient(ctx with oauth2.HTTPClient = httpClient, StaticTokenSource(token)):
\* a new client whose transport sends through httpClient's.
oauth2NewClient(httpClient, token) ==
    [kind |-> "oauth2", inner |-> httpClient, token |-> token]

\* Mutant: the bearer token of the configuration is ignored.
newk6HTTPClientNoAuth(cfg) == BaseHTTPClient

\* newk6HTTPClient, after the client on the k6 transport is built.
newk6HTTPClient(cfg) ==
    IF cfg.token # NoToken THEN oauth2NewClient(BaseHTTPClient, cfg.token)
    ELSE BaseHTTPClient

\* The Authorization header a request sent through httpClient carries
\* (<<>>: none): the oauth2 transport adds "Bearer <AccessToken>".
Authorization(httpClient) ==
    IF httpClient.token # NoToken THEN <<"Bearer", httpClient.token>> ELSE <<>>

\* cmd.Env after the loop over cfg.Env: the overrides alone (empty: nil).
CmdEnv(cfg) == cfg.env

\* The environment the subprocess gets from exec.Cmd: the parent's when
\* cmd.Env is nil, cmd.Env otherwise.
ProcessEnv(cmdEnv) == IF cmdEnv = {} THEN BaseEnv ELSE cmdEnv

\* No peer is reached through an empty executable path or an empty URL: the
\* connection attempt fails.
Unreachable(kind, cfg) ==
    IF kind = "StdioClient" THEN cfg.path = "" ELSE cfg.baseURL = ""

\* Mutant: Ping hands the failure to the caller like the other methods.
PingResultPropagates(err) == IF err THEN "err" ELSE "true"

\* Ping: err := c.session.Ping(...); return err == nil
PingResult(err) == IF err THEN "false" ELSE "true"

\* The constructors of the HTTP transports build the HTTP client from
\* m.vu.State() before connecting; outside a VU context that dereferences nil.
ConstructorPanics(kind, vuState) ==
    kind \in {"SSEClient", "StreamableHTTPClient"} /\ ~vuState

-----------------------------------------------------------------------------
(* The aggregate list-all loop *)

RECURSIVE NonNil(_)
NonNil(items) ==
    IF items = <<>> THEN <<>>
    ELSE (IF Head(items) = NIL THEN <<>> ELSE <<Head(items)>>) \o NonNil(Tail(items))

\* Mutant: the page's items are put in front of the accumulated ones.
AppendItemsInFront(acc, items) == NonNil(items) \o acc

\* for _, t := range result.Tools { if t != nil { allTools = append(allTools, *t) } }
AppendItems(acc, items) == acc \o NonNil(items)

\* Mutant: a direct list call drops the nil entries as the aggregate does.
PageResultNonNil(page) == [items |-> NonNil(page.items), next |-> page.next]

\* ListTools / ListResources / ListPrompts: return result, err
PageResult(page) == [items |-> page.items, next |-> page.next]

\* Mutant: the loop forgets to advance the cursor.
NextCursorKept(cursor, page) == cursor

\* cursor = result.NextCursor
NextCursor(cursor, page) == page.next

\* Mutant: an empty nextCursor does not end the loop.
LastPageNever(next) == FALSE

\* if result.NextCursor == "" { break }
LastPage(next) == next = ""

\* The error prefix of fmt.Errorf("failed to list ...: %w", err), revision "mcp";
\* revision "part" returns err as it is.
WrapName(rev, op) ==
    IF rev = "part" THEN ""
    ELSE CASE op = "ListAllTools" -> "failed to list tools"
           [] op = "ListAllResources" -> "failed to list resources"
           [] op = "ListAllPrompts" -> "failed to list prompts"
           [] OTHER -> ""

\* Mutant: the items accumulated so far are returned with the error.
ListAllItemsPartial(acc, err) == acc

\* What the aggregate returns: (nil, error) or (all items, nil).
ListAllItems(acc, err) == IF err THEN <<>> ELSE acc

\* Revision "part" records the whole aggregate once, after the loop, under the
\* aggregate's own name; revision "mcp" records nothing there.
AggregatePush(rev, op, err, tags) ==
    IF rev = "part" THEN K6MetricsPush(op, err, tags) ELSE <<>>

-----------------------------------------------------------------------------
(* Which recorder a completed request goes through *)

\* Mutant: CallTool returns without recording.
RecorderSkipsCallTool(target, rev, op) ==
    IF op = "CallTool" THEN "none"
    ELSE IF target = "Module" THEN "module"
    ELSE IF op \in Constructors \/ op = "Ping" THEN "none"
    ELSE IF rev = "mcp" THEN "free"
    ELSE IF op \in ListAllOps THEN "none"
    ELSE "k6"

Recorder(target, rev, op) ==
    IF target = "Module" THEN "module"
    ELSE IF op \in Constructors \/ op = "Ping" THEN "none"
    ELSE IF rev = "mcp" THEN "free"
    ELSE IF op \in ListAllOps THEN "none"
    ELSE "k6"

\* The handles a recorder puts into a sample: the free pushRequestMetrics reads
\* the package variable at the push, Module reads m.metrics, and K6Metrics the
\* metrics it registered when the client was constructed.
MetricHandles(target, rev, op, global) ==
    IF Recorder(target, rev, op) = "free" THEN global ELSE OwnRegistry

\* current: State().Tags.GetCurrentValues() read by the recorder at the push;
\* captured: the tagsAndMeta a K6Metrics was constructed with.
RequestSamples(target, rev, op, vuState, err, current, captured) ==
    LET r == Recorder(target, rev, op)
    IN  CASE r = "module" -> ModulePushRequestMetrics(vuState, MethodName(op), err, current)
          [] r = "free" -> pushRequestMetrics(MethodName(op), err, current)
          [] r = "k6" -> K6MetricsPush(MethodName(op), err, captured)
          [] OTHER -> <<>>

-----------------------------------------------------------------------------
(* Calls *)

Idle == [target |-> "none", op |-> "none", pc |-> "idle", kind |-> "none",
         error |-> "none", wrap |-> "", items |-> <<>>, next |-> "",
         cursor |-> "", acc |-> <<>>, err |-> FALSE, page |-> NoPage,
         pending |-> <<>>, emitted |-> <<>>, recorded |-> FALSE,
         served |-> <<>>, n |-> 0, reqCursor |-> "",
         scope0 |-> FALSE, scopeDone |-> FALSE, tags0 |-> RootTags, used |-> {},
         cfg |-> DefaultConfig, http |-> NoHTTP, auth |-> <<>>, env |-> {},
         sess0 |-> NilSession, failed0 |-> FALSE, hs0 |-> 0, tr0 |-> 0]

\* A call as it starts: sess0, failed0, hs0, tr0, scope0 remember the session
\* handle, the history flag, the counters and whether the VU context was
\* already cancelled at the time of the call; tags0 the VU's tag set then.
Start(target, op, session) ==
    [Idle EXCEPT !.target = target, !.op = op, !.sess0 = session,
                 !.failed0 = (target = "Module" /\ mFailed),
                 !.hs0 = handshakes, !.tr0 = transports, !.scope0 = ctxDone,
                 !.tags0 = vuTags]

\* Mutant: the request is sent a second time.
IssueTwice(c, cursor) ==
    [c EXCEPT !.pc = "await", !.reqCursor = cursor,
              !.n = IF c.n <= MaxPages THEN c.n + 2 ELSE c.n,
              !.auth = Authorization(c.http),
              !.recorded = FALSE]

\* One request goes out on the session, through the HTTP client of its
\* transport if it has one: n counts the requests of the call (it stops
\* counting past MaxPages + 1).
Issue(c, cursor) ==
    [c EXCEPT !.pc = "await", !.reqCursor = cursor,
              !.n = IF c.n <= MaxPages THEN c.n + 1 ELSE c.n,
              !.auth = Authorization(c.http),
              !.recorded = FALSE]

Returned(c, kind, error) == [c EXCEPT !.pc = "idle", !.kind = kind, !.error = error]

Init ==
    /\ revision \in {"mcp", "part"}
    /\ inVU = FALSE
    /\ ctxDone = FALSE
    /\ vuTags = RootTags
    /\ mcp_metrics = OwnRegistry
    /\ mSession = NilSession
    /\ mFailed = FALSE
    /\ client = NoClient
    /\ handshakes = 0
    /\ transports = 0
    /\ sink = 0
    /\ call = Idle
    /\ ret = Idle
    /\ ncalls = 0

CanCall == call.pc = "idle" /\ ncalls < MaxCalls

-----------------------------------------------------------------------------
(* The environment *)

\* modulestest.Runtime.MoveToVUContext: the script leaves the init context.
MoveToVUContext ==
    /\ call.pc = "idle"
    /\ ~inVU
    /\ inVU' = TRUE
    /\ UNCHANGED <<revision, mcp_metrics, vuTags, ctxDone, mSession, mFailed, client, handshakes, transports,
                   sink, call, ret, ncalls>>

\* The VU context is cancelled (end of the iteration or of the test).
CancelContext ==
    /\ inVU
    /\ ~ctxDone
    /\ ctxDone' = TRUE
    /\ UNCHANGED <<revision, mcp_metrics, vuTags, inVU, mSession, mFailed, client, handshakes, transports,
                   sink, call, ret, ncalls>>

\* The script changes the tags of the VU between two calls (exec.vu.tags).
SetTags ==
    /\ call.pc = "idle"
    /\ inVU
    /\ vuTags = RootTags
    /\ vuTags' = "t1"
    /\ UNCHANGED <<revision, mcp_metrics, inVU, ctxDone, mSession, mFailed, client, handshakes,
                   transports, sink, call, ret, ncalls>>

\* NewModuleInstance for another VU or runtime whose registry is reg: revision
\* "mcp" stores the new handles in the package variable, the other revisions
\* in the new instance.
NewModuleInstance(reg) ==
    /\ mcp_metrics' = IF revision = "mcp" THEN reg ELSE mcp_metrics
    /\ UNCHANGED <<revision, inVU, ctxDone, vuTags, mSession, mFailed, client, handshakes,
                   transports, sink, call, ret, ncalls>>

\* The collector takes the buffered samples out of the channel.  Only a full
\* channel changes what the program can do, so the collector is let in then.
Drain ==
    /\ sink = SinkCap
    /\ sink' = 0
    /\ UNCHANGED <<revision, mcp_metrics, vuTags, inVU, ctxDone, mSession, mFailed, client, handshakes,
                   transports, call, ret, ncalls>>

-----------------------------------------------------------------------------
(* Module: Connect, ListTools, CallTool *)

ModuleConnect ==
    /\ CanCall
    /\ ncalls' = ncalls + 1
    /\ LET c == Start("Module", "Connect", mSession)
       IN  IF AlreadyConnected(mSession)
           THEN /\ ret' = Returned(c, AlreadyConnectedResult.kind,
                                      AlreadyConnectedResult.error)
                /\ call' = Idle
                /\ UNCHANGED transports
           ELSE /\ transports' = transports + 1
                /\ call' = Issue(c, "")
                /\ ret' = Idle
    /\ UNCHANGED <<revision, mcp_metrics, vuTags, inVU, ctxDone, mSession, mFailed, client, handshakes, sink>>

ModuleCall(op) ==
    /\ CanCall
    /\ ncalls' = ncalls + 1
    /\ LET c == Start("Module", op, mSession)
       IN  IF MustConnect(mSession)
           THEN /\ ret' = Returned(c, "err", "state")
                /\ call' = Idle
           ELSE /\ call' = Issue(c, "")
                /\ ret' = Idle
    /\ UNCHANGED <<revision, mcp_metrics, vuTags, inVU, ctxDone, mSession, mFailed, client, handshakes,
                   transports, sink>>

-----------------------------------------------------------------------------
(* Client: constructors, RPC methods, aggregates *)

\* A constructor called with the configuration cfg: the transport is built
\* (the command with its environment, or the endpoint with its HTTP client)
\* and the handshake is started on it.
NewClientWith(kind, cfg) ==
    /\ CanCall
    /\ ncalls' = ncalls + 1
    /\ LET c == [Start("Client", kind, client.session) EXCEPT !.cfg = cfg]
           t == [c EXCEPT
                   !.http = IF kind = "StdioClient" THEN NoHTTP ELSE newk6HTTPClient(cfg),
                   !.env = IF kind = "StdioClient" THEN ProcessEnv(CmdEnv(cfg)) ELSE {}]
       IN  IF ConstructorPanics(kind, inVU)
           THEN /\ ret' = Returned(c, "panic", "none")
                /\ call' = Idle
                /\ UNCHANGED transports
           ELSE /\ transports' = transports + 1
                /\ call' = Issue(t, "")
                /\ ret' = Idle
    /\ UNCHANGED <<revision, mcp_metrics, vuTags, inVU, ctxDone, mSession, mFailed, client, handshakes, sink>>

NewClient(kind) == NewClientWith(kind, DefaultConfig)

\* A method call on the client: its requests go through the client's transport.
ClientStart(op) ==
    [Start("Client", op, client.session) EXCEPT !.http = client.http, !.cfg = client.cfg]

ClientCall(op, cursor) ==
    /\ CanCall
    /\ client # NoClient
    /\ op \notin ListOps => cursor = ""
    /\ ncalls' = ncalls + 1
    /\ call' = Issue([ClientStart(op) EXCEPT !.cursor = cursor], cursor)
    /\ ret' = Idle
    /\ UNCHANGED <<revision, mcp_metrics, vuTags, inVU, ctxDone, mSession, mFailed, client, handshakes,
                   transports, sink>>

ClientListAll(op) ==
    /\ CanCall
    /\ client # NoClient
    /\ ncalls' = ncalls + 1
    /\ call' = Issue(ClientStart(op), "")
    /\ ret' = Idle
    /\ UNCHANGED <<revision, mcp_metrics, vuTags, inVU, ctxDone, mSession, mFailed, client, handshakes,
                   transports, sink>>

-----------------------------------------------------------------------------
(* The awaited request completes: the peer answers, or the request fails *)

Respond(ok, page) ==
    /\ call.pc = "await"
    /\ LET cancelled == CtxIsDone(RequestCtx(call.target, revision, call.op), ctxDone)
           err == ~ok \/ cancelled
           paged == call.op \in ListOps \cup ListAllOps
           c == [call EXCEPT
                   !.pc = "push", !.err = err, !.page = page,
                   !.scopeDone = ctxDone,
                   !.pending = RequestSamples(call.target, revision, call.op, inVU, err,
                                              vuTags, client.tags),
                   !.recorded = Recorder(call.target, revision, call.op) # "none",
                   !.served = IF call.op \in ListAllOps
                              THEN call.served \o page.items ELSE call.served]
       IN  /\ cancelled => ~ok
           /\ (call.op \in Constructors /\ Unreachable(call.op, call.cfg)) => ~ok
           /\ (err \/ ~paged) => page = NoPage
           /\ call.n > MaxPages => page \in EmptyPages
           /\ handshakes' = IF call.op = "Connect" \/ call.op \in Constructors
                            THEN handshakes + 1 ELSE handshakes
           /\ IF Recorder(call.target, revision, call.op) = "free" /\ ~client.k6State
              THEN \* client.k6_state is nil: pushRequestMetrics dereferences it
                   /\ ret' = Returned([c EXCEPT !.pending = <<>>], "panic", "none")
                   /\ call' = Idle
              ELSE /\ call' = c
                   /\ UNCHANGED ret
    /\ UNCHANGED <<revision, mcp_metrics, vuTags, inVU, ctxDone, mSession, mFailed, client, transports, sink, ncalls>>

\* metrics.PushIfNotDone: the context is still live, the sample is sent
\* (the send blocks while the channel is full).
PushSample ==
    /\ call.pc \in {"push", "tail"}
    /\ call.pending # <<>>
    /\ ~CtxIsDone(PushCtx(call.target), ctxDone)
    /\ sink < SinkCap
    /\ sink' = sink + 1
    /\ call' = [call EXCEPT !.pending = Tail(call.pending),
                            !.emitted = IF call.n <= MaxPages
                                        THEN Append(call.emitted, Head(call.pending))
                                        ELSE call.emitted,
                            !.used = IF call.n <= MaxPages
                                     THEN call.used \cup
                                          {MetricHandles(call.target, revision, call.op,
                                                         mcp_metrics)}
                                     ELSE call.used]
    /\ UNCHANGED <<revision, mcp_metrics, vuTags, inVU, ctxDone, mSession, mFailed, client, handshakes,
                   transports, ret, ncalls>>

\* metrics.PushIfNotDone: the context is done, the sample is dropped.
DropSample ==
    /\ call.pc \in {"push", "tail"}
    /\ call.pending # <<>>
    /\ CtxIsDone(PushCtx(call.target), ctxDone)
    /\ call' = [call EXCEPT !.pending = Tail(call.pending)]
    /\ UNCHANGED <<revision, mcp_metrics, vuTags, inVU, ctxDone, mSession, mFailed, client, handshakes,
                   transports, sink, ret, ncalls>>

Recorded == call.pc = "push" /\ call.pending = <<>>

-----------------------------------------------------------------------------
(* Returns *)

ConnectReturn ==
    /\ Recorded
    /\ call.target = "Module" /\ call.op = "Connect"
    /\ ret' = IF call.err THEN Returned(call, "err", "connection")
              ELSE Returned(call, "ok", "none")
    /\ mSession' = SessionAfterConnect(mSession, call.err, handshakes)
    /\ mFailed' = (mFailed \/ call.err)
    /\ call' = Idle
    /\ UNCHANGED <<revision, mcp_metrics, vuTags, inVU, ctxDone, client, handshakes, transports, sink, ncalls>>

NewClientReturn ==
    /\ Recorded
    /\ call.target = "Client" /\ call.op \in Constructors
    /\ IF call.err
       THEN \* common.Throw("connection error: ...")
            /\ ret' = Returned(call, "err", "connection")
            /\ UNCHANGED client
       ELSE IF revision = "part" /\ ~inVU
       THEN \* metrics.NewK6Metrics(m.registry, m.vu.State().Samples, ...)
            /\ ret' = Returned(call, "panic", "none")
            /\ UNCHANGED client
       ELSE /\ ret' = Returned(call, "ok", "none")
            /\ client' = [session |-> handshakes, k6State |-> inVU, kind |-> call.op,
                           tags |-> IF revision = "part" THEN vuTags ELSE RootTags,
                           http |-> call.http, cfg |-> call.cfg]
    /\ call' = Idle
    /\ UNCHANGED <<revision, mcp_metrics, vuTags, inVU, ctxDone, mSession, mFailed, handshakes, transports, sink, ncalls>>

CallReturn ==
    /\ Recorded
    /\ call.op \in RpcOps
    /\ ret' = IF call.op = "Ping"
              THEN Returned(call, PingResult(call.err), "none")
              ELSE IF call.err
              THEN Returned(call, "err", "rpc")
              ELSE [Returned(call, "ok", "none") EXCEPT
                      !.items = PageResult(call.page).items,
                      !.next = PageResult(call.page).next]
    /\ call' = Idle
    /\ UNCHANGED <<revision, mcp_metrics, vuTags, inVU, ctxDone, mSession, mFailed, client, handshakes,
                   transports, sink, ncalls>>

\* One page was fetched and there is a next one: the loop issues the next request.
ListAllNextPage ==
    /\ Recorded
    /\ call.op \in ListAllOps
    /\ ~call.err
    /\ ~LastPage(call.page.next)
    /\ LET c == [call EXCEPT !.acc = AppendItems(call.acc, call.page.items),
                             !.cursor = NextCursor(call.cursor, call.page)]
       IN  call' = Issue(c, c.cursor)
    /\ UNCHANGED <<revision, mcp_metrics, vuTags, inVU, ctxDone, mSession, mFailed, client, handshakes,
                   transports, sink, ret, ncalls>>

\* The loop breaks: on an error, or on an empty nextCursor after the append.
ListAllBreak ==
    /\ Recorded
    /\ call.op \in ListAllOps
    /\ call.err \/ LastPage(call.page.next)
    /\ call' = [call EXCEPT
                  !.pc = "tail",
                  !.acc = IF call.err THEN call.acc
                          ELSE AppendItems(call.acc, call.page.items),
                  !.pending = AggregatePush(revision, call.op, call.err, client.tags),
                  !.recorded = call.recorded \/ revision = "part"]
    /\ UNCHANGED <<revision, mcp_metrics, vuTags, inVU, ctxDone, mSession, mFailed, client, handshakes,
                   transports, sink, ret, ncalls>>

ListAllReturn ==
    /\ call.pc = "tail"
    /\ call.pending = <<>>
    /\ ret' = [Returned(call, IF call.err THEN "err" ELSE "ok",
                              IF call.err THEN "rpc" ELSE "none") EXCEPT
                 !.wrap = IF call.err THEN WrapName(revision, call.op) ELSE "",
                 !.items = ListAllItems(call.acc, call.err)]
    /\ call' = Idle
    /\ UNCHANGED <<revision, mcp_metrics, vuTags, inVU, ctxDone, mSession, mFailed, client, handshakes,
                   transports, sink, ncalls>>

-----------------------------------------------------------------------------

Next ==
    \/ MoveToVUContext
    \/ CancelContext
    \/ Drain
    \/ ModuleConnect
    \/ \E op \in ModuleOps \ {"Connect"} : ModuleCall(op)
    \/ \E kind \in Constructors : NewClient(kind)
    \/ \E op \in RpcOps, cursor \in Cursors : ClientCall(op, cursor)
    \/ \E op \in ListAllOps : ClientListAll(op)
    \/ \E ok \in BOOLEAN, page \in Pages : Respond(ok, page)
    \/ PushSample
    \/ DropSample
    \/ ConnectReturn
    \/ NewClientReturn
    \/ CallReturn
    \/ ListAllNextPage
    \/ ListAllBreak
    \/ ListAllReturn

Spec == Init /\ [][Next]_vars

\* The steps of the call in progress.  The script thread keeps running, the peer
\* answers every request, and the collector keeps reading the channel.
Progress ==
    \/ \E ok \in BOOLEAN, page \in Pages : Respond(ok, page)
    \/ PushSample
    \/ DropSample
    \/ ConnectReturn
    \/ NewClientReturn
    \/ CallReturn
    \/ ListAllNextPage
    \/ ListAllBreak
    \/ ListAllReturn

FairSpec == Spec /\ WF_vars(Progress) /\ WF_vars(Drain)

\* The constructors called with every configuration of Configs, and the single
\* calls made through the clients they return.
ConfigNext ==
    \/ MoveToVUContext
    \/ Drain
    \/ \E kind \in Constructors, cfg \in Configs : NewClientWith(kind, cfg)
    \/ \E op \in RpcOps, cursor \in Cursors : ClientCall(op, cursor)
    \/ \E ok \in BOOLEAN, page \in Pages : Respond(ok, page)
    \/ PushSample
    \/ NewClientReturn
    \/ CallReturn

ConfigSpec == Init /\ [][ConfigNext]_vars

\* The same program run by a script that also changes the VU's tags.
TagNext == Next \/ SetTags

TagSpec == Init /\ [][TagNext]_vars

\* The same program while module instances are created for other VUs.
InstanceNext == Next \/ \E reg \in Registries : NewModuleInstance(reg)

InstanceSpec == Init /\ [][InstanceNext]_vars

-----------------------------------------------------------------------------
(* Properties *)

Metrics(samples) == [i \in 1..Len(samples) |-> samples[i].metric]

\* The last call returned a result or an error to the script (it did not crash).
Completed(r) == r.kind \in {"ok", "err", "true", "false"}

\* The last call was an aggregate that fetched all its pages and returned them.
ListAllSucceeded == ret.op \in ListAllOps /\ ret.kind = "ok"

\* C1 (as stated): a successful aggregate returns exactly the in-order
\* concatenation of the items of the pages the peer served.
C1_ExactConcatenation == ListAllSucceeded => ret.items = ret.served

\* C1 (amended): a successful aggregate returns the in-order concatenation of
\* the non-nil items of the pages the peer served; nil entries are skipped.
C1_ConcatenationOfNonNilItems ==
    ListAllSucceeded => ret.items = SelectSeq(ret.served, LAMBDA e : e # NIL)

\* Two pages of two entries each were served, one entry was nil.
C1_Witness ==
    /\ ListAllSucceeded
    /\ ret.n = 2
    /\ Len(ret.served) = 4
    /\ Len(ret.items) = 3

\* C2: when a page fetch of an aggregate returns an error, the aggregate fails
\* and hands no item to the caller, whatever was accumulated before.
C2_NoPartialList ==
    (ret.op \in ListAllOps /\ ret.err) => (ret.kind \in {"err", "panic"} /\ ret.items = <<>>)

\* An aggregate failed on its second page after a first page with items.
C2_Witness ==
    /\ ret.op \in ListAllOps
    /\ ret.kind = "err"
    /\ ret.n = 2
    /\ ret.acc # <<>>
    /\ ret.items = <<>>

\* C3: every aggregate call terminates, also when the peer never returns an
\* empty nextCursor (stated for the loop of src/mcp.go, whose every line is known).
C3_ListAllTerminates ==
    (revision = "mcp" /\ call.op \in ListAllOps /\ call.pc # "idle") ~> (call.pc = "idle")

\* C4: a single RPC call of a Client emits exactly one duration and one count
\* sample when it succeeds, and exactly those two plus one error-count sample
\* when it fails (the context of the samples channel being live).
C4_TwoOrThreeSamples ==
    (/\ ret.target = "Client"
     /\ ret.op \in ListOps \cup SingleOps
     /\ ret.kind \in {"ok", "err"}
     /\ ~ctxDone)
    => Metrics(ret.emitted) =
         IF ret.kind = "ok"
         THEN <<"mcp_request_duration", "mcp_request_count">>
         ELSE <<"mcp_request_duration", "mcp_request_count", "mcp_request_errors">>

\* C5: after constructing a StreamableHTTPClient and one CallTool, the channel
\* holds 2 samples in total if the call succeeded and 3 if it failed.
C5_SamplesAfterOneCallTool ==
    (/\ ncalls = 2
     /\ client.kind = "StreamableHTTPClient"
     /\ ret.target = "Client"
     /\ ret.op = "CallTool"
     /\ ret.kind \in {"ok", "err"}
     /\ ~ctxDone)
    => sink = IF ret.kind = "ok" THEN 2 ELSE 3

\* C6: an RPC call made while no session is stored fails with the
\* "must call Connect() first" error, and an RPC call succeeds only with a
\* stored session.
C6_RpcOnlyWhenConnected ==
    ret.op \in RpcOps =>
        /\ ret.sess0 = NilSession => (ret.kind = "err" /\ ret.error = "state")
        /\ ret.kind \in {"ok", "true"} => ret.sess0 # NilSession

\* ListTools was called before any Connect and was rejected.
C6_Witness ==
    /\ ret.target = "Module"
    /\ ret.op = "ListTools"
    /\ ret.sess0 = NilSession
    /\ ret.error = "state"

\* C7: Connect on a session that is already connected returns success, performs
\* no handshake, constructs no transport and leaves the stored handle unchanged.
C7_ConnectIdempotent ==
    (ret.target = "Module" /\ ret.op = "Connect" /\ ret.sess0 # NilSession) =>
        /\ ret.kind = "ok"
        /\ handshakes = ret.hs0
        /\ transports = ret.tr0
        /\ mSession = ret.sess0

\* Connect returned on a session connected by an earlier Connect.
C7_Witness ==
    /\ ret.target = "Module"
    /\ ret.op = "Connect"
    /\ ret.sess0 # NilSession
    /\ ret.kind = "ok"
    /\ ncalls = 2

\* The session was not Unconnected when the call was made: it was Connected, or
\* Closed by an earlier handshake failure.
NotUnconnected(r) == r.sess0 # NilSession \/ r.failed0

\* C8 (as stated): Connect on a session that is not Unconnected is rejected with
\* a SessionStateError.
C8_ConnectRejectedUnlessUnconnected ==
    (ret.target = "Module" /\ ret.op = "Connect" /\ ret.kind # "none" /\ NotUnconnected(ret))
    => (ret.kind = "err" /\ ret.error = "state")

\* C8 (amended): Connect is rejected in no state.  On a connected session it
\* returns success; otherwise it performs one handshake and returns its outcome.
C8_ConnectNeverRejected ==
    (ret.target = "Module" /\ ret.op = "Connect" /\ ret.kind # "none") =>
        /\ ret.error # "state"
        /\ ret.sess0 # NilSession => ret.kind = "ok"
        /\ ret.sess0 = NilSession =>
             /\ handshakes = ret.hs0 + 1
             /\ ret.kind = IF ret.err THEN "err" ELSE "ok"
             /\ ret.error = IF ret.err THEN "connection" ELSE "none"

\* Connect was called on a connected session and returned success.
C8_Witness ==
    /\ ret.target = "Module"
    /\ ret.op = "Connect"
    /\ NotUnconnected(ret)
    /\ ret.sess0 # NilSession
    /\ ret.kind = "ok"
    /\ ret.error = "none"

\* C9: once the handshake of Connect has failed the session is Closed for good:
\* a later Connect performs no handshake and no later call succeeds.
C9_ClosedAfterFailedHandshake ==
    (ret.target = "Module" /\ ret.kind # "none" /\ ret.failed0) =>
        /\ handshakes = ret.hs0
        /\ ret.kind # "ok"

\* C10 (as stated): every RPC call that issued its request, Ping included, goes
\* through the recorder before it returns.
C10_EveryRpcRecorded ==
    (ret.op \in RpcOps /\ ret.n >= 1 /\ Completed(ret)) => ret.recorded

\* C10 (amended): every RPC call other than Ping that issued its request goes
\* through the recorder once, on success and on error, and every sample is
\* pushed or dropped before the call returns; Ping records nothing.
C10_RecordedBeforeReturnExceptPing ==
    (ret.op \in RpcOps /\ ret.n >= 1 /\ Completed(ret)) =>
        /\ ret.pending = <<>>
        /\ ret.op # "Ping" => ret.recorded
        /\ ret.op = "Ping" => (~ret.recorded /\ ret.emitted = <<>>)

\* A CallTool failed and its three samples were in the channel when it returned.
C10_Witness ==
    /\ ret.op = "CallTool"
    /\ ret.kind = "err"
    /\ ret.recorded
    /\ Len(ret.emitted) >= 3

\* C11: Ping never hands an error to the caller: it returns true exactly when
\* the ping request succeeded and false on every failure; every other RPC
\* method that returns after a failed request returns that error.
C11_PingCollapsesErrors ==
    (ret.op \in RpcOps /\ ret.n >= 1 /\ Completed(ret)) =>
        IF ret.op = "Ping"
        THEN /\ ret.kind = (IF ret.err THEN "false" ELSE "true")
             /\ ret.error = "none"
        ELSE /\ ret.kind = (IF ret.err THEN "err" ELSE "ok")
             /\ ret.error = (IF ret.err THEN "rpc" ELSE "none")

\* A ping failed and the script got false, with no error.
C11_Witness ==
    /\ ret.op = "Ping"
    /\ ret.err
    /\ ret.kind = "false"
    /\ ret.error = "none"

\* C12: a missing metrics sink (no VU state) never makes a call crash: an RPC
\* call, an aggregate, and the construction of a stdio client (whose only use
\* of the VU state is the sink) return a result or an error.
C12_MissingSinkNeverCrashes ==
    ret.op \in RpcOps \cup ListAllOps \cup {"StdioClient"} => ret.kind # "panic"

\* C13: the recorder never waits on the sink: an RPC call is never at a send
\* that can only go on once the collector has taken samples out of a full
\* channel.
C13_RecorderNeverWaitsOnSink ==
    (call.op \in RpcOps /\ call.pc = "push" /\ call.pending # <<>>) =>
        (sink < SinkCap \/ CtxIsDone(PushCtx(call.target), ctxDone))

\* The samples the claim expects of an aggregate that fetched k pages: one
\* duration and one count sample per page under the single-page method name,
\* and one error-count sample after a failing last page.
RECURSIVE PageSamples(_, _, _, _)
PageSamples(method, k, failed, tags) ==
    IF k = 0 THEN <<>>
    ELSE PageSamples(method, k - 1, FALSE, tags)
         \o <<Sample("mcp_request_duration", method, tags),
               Sample("mcp_request_count", method, tags)>>
         \o (IF failed THEN <<Sample("mcp_request_errors", method, tags)>> ELSE <<>>)

\* C14: an aggregate that fetched k pages emitted exactly the samples of k
\* single-page calls (tagged tools/list, resources/list, prompts/list) and no
\* aggregate-level sample (the context of the samples channel being live).
C14_PagesInstrumentedLikeSingleCalls ==
    (/\ ret.op \in ListAllOps
     /\ ret.kind \in {"ok", "err"}
     /\ ret.n <= MaxPages
     /\ ~ctxDone)
    => ret.emitted = PageSamples(MethodName(ret.op), ret.n, ret.kind = "err", ret.tags0)

\* C15: in an aggregate call the first request carries the empty cursor; a
\* later request is outstanding only after the page before it succeeded, and
\* it carries exactly the nextCursor of that page (which was not empty).
C15_PagesInOrder ==
    (call.op \in ListAllOps /\ call.pc = "await") =>
        IF call.n = 1
        THEN call.reqCursor = ""
        ELSE /\ ~call.err
             /\ call.page.next # ""
             /\ call.reqCursor = call.page.next

\* The request for the second page is outstanding, with the cursor of the first.
C15_Witness ==
    /\ call.op \in ListAllOps
    /\ call.pc = "await"
    /\ call.n = 2
    /\ call.page.next = "b"
    /\ call.reqCursor = "b"

\* C18: an RPC call whose caller's scope (the VU context) was cancelled while
\* the request was outstanding completes with an error.
C18_CancellationHonoured ==
    (/\ ret.op \in RpcOps
     /\ ret.n >= 1
     /\ Completed(ret)
     /\ ~ret.scope0
     /\ ret.scopeDone)
    => ret.err

\* C20: a direct RPC call issues exactly one request (none when it is rejected
\* for the missing session), and when the request failed the call returns the
\* failure: there is no second attempt.
C20_NoImplicitRetry ==
    (ret.op \in RpcOps /\ ret.kind # "none") =>
        /\ ret.n = (IF ret.error = "state" THEN 0 ELSE 1)
        /\ (ret.err /\ Completed(ret)) => ret.kind \in {"err", "false"}

\* A CallTool of Module failed after its one request.
C20_Witness ==
    /\ ret.target = "Module"
    /\ ret.op = "CallTool"
    /\ ret.err
    /\ ret.kind = "err"
    /\ ret.n = 1

\* The request in flight was sent by a Client through an HTTP transport.
SentOverHTTP == call.pc = "await" /\ call.target = "Client" /\ call.http # NoHTTP

\* C21: with a non-empty bearer token T in the configuration every request sent
\* through the HTTP client carries "Authorization: Bearer T"; with an empty
\* token the client is the one built on the k6 transport and no request carries
\* an Authorization header.
C21_BearerHeaderIffToken ==
    SentOverHTTP =>
        IF call.cfg.token # NoToken
        THEN call.auth = <<"Bearer", call.cfg.token>>
        ELSE call.http = BaseHTTPClient /\ call.auth = <<>>

\* A CallTool is in flight on a client constructed with the token "T".
C21_Witness ==
    /\ SentOverHTTP
    /\ call.op = "CallTool"
    /\ call.cfg.token = "T"
    /\ call.auth = <<"Bearer", "T">>

\* C22: a constructor called with an empty executable path (stdio) or an empty
\* base URL (HTTP) fails with a configuration error before any subprocess is
\* started or any connection is attempted.
C22_ConfigErrorBeforeAnyAttempt ==
    (ret.op \in Constructors /\ Completed(ret) /\ Unreachable(ret.op, ret.cfg)) =>
        /\ ret.kind = "err"
        /\ ret.error = "config"
        /\ transports = ret.tr0
        /\ handshakes = ret.hs0

\* Base environment merged with the overrides: the overrides, and the base
\* variables no override names.
MergedEnv(base, overrides) ==
    {p \in base : \A q \in overrides : q[1] # p[1]} \cup overrides

\* C23: the subprocess of a stdio client runs with the base environment merged
\* with the configured overrides, for an empty and for a non-empty override set.
C23_EnvIsBaseMergedWithOverrides ==
    (ret.op = "StdioClient" /\ ret.kind = "ok") =>
        ret.env = MergedEnv(BaseEnv, ret.cfg.env)

\* The client was built for an HTTP transport with a bearer token configured.
BuiltWithToken == client.kind \in Constructors \ {"StdioClient"} /\ client.cfg.token # NoToken

\* C30: wrapping with a bearer token leaves the client it was given as it was:
\* the returned client is a new one composed around it, and a request sent
\* through the inner client still carries no Authorization header.
C30_BaseClientNotMutated ==
    BuiltWithToken =>
        /\ client.http.kind = "oauth2"
        /\ client.http # client.http.inner
        /\ client.http.inner = BaseHTTPClient
        /\ Authorization(client.http.inner) = <<>>
        /\ Authorization(client.http) = <<"Bearer", client.cfg.token>>

\* An SSE client was constructed with the token "T".
C30_Witness ==
    /\ BuiltWithToken
    /\ client.kind = "SSEClient"
    /\ client.cfg.token = "T"
    /\ client.http.kind = "oauth2"
    /\ ret.op = "SSEClient"
    /\ ret.kind = "ok"

\* C24: the transport of a session is created at most once, and nothing the
\* session created stays live once it is Closed: a Connect on a session whose
\* handshake failed creates no further transport.
C24_TransportCreatedAtMostOnce ==
    (ret.target = "Module" /\ ret.op = "Connect" /\ ret.kind # "none" /\ ret.failed0) =>
        transports = ret.tr0

\* C25: an RPC call made while no session is stored is rejected without
\* touching the transport: no request is issued, no handshake is performed, no
\* transport is built, and the stored handle and the state are left as they were.
C25_RejectedWithoutTouchingTransport ==
    (ret.op \in RpcOps /\ ret.kind # "none" /\ ret.sess0 = NilSession) =>
        /\ ret.kind = "err"
        /\ ret.error = "state"
        /\ ret.n = 0
        /\ handshakes = ret.hs0
        /\ transports = ret.tr0
        /\ mSession = ret.sess0
        /\ mFailed = ret.failed0

\* CallTool of Module was rejected before any Connect.
C25_Witness ==
    /\ ret.target = "Module"
    /\ ret.op = "CallTool"
    /\ ret.sess0 = NilSession
    /\ ret.error = "state"
    /\ ret.n = 0
    /\ ncalls = 1

\* C26: after a page of an aggregate is recorded, the loop ends exactly when
\* the page failed or its nextCursor is empty, and fetches the next page
\* otherwise, whatever the number of items of the page; the loop has ended
\* only on a failed page or an empty nextCursor.
C26_OnlyEmptyCursorEndsLoop ==
    [][(call.op \in ListAllOps /\ call.pc = "push" /\ call'.pc # "push") =>
          IF call.err \/ call.page.next = ""
          THEN call'.pc = "tail" /\ call'.n = call.n
          ELSE call'.pc = "await" /\ call'.reqCursor = call.page.next]_vars

\* The second request of an aggregate is in flight after a first page with no
\* item and a non-empty nextCursor.
C26_Witness ==
    /\ call.op \in ListAllOps
    /\ call.pc = "await"
    /\ call.n = 2
    /\ call.served = <<>>
    /\ call.page.items = <<>>
    /\ call.page.next # ""

\* C27: the error of a failed page fetch is returned by the aggregate wrapped
\* with the name of the aggregate operation, for all three aggregates.
C27_AggregateErrorWrapped ==
    (ret.op \in ListAllOps /\ ret.kind = "err") => ret.wrap # ""

\* C28: a direct list call returns exactly one page: it issues one request with
\* the caller's cursor unchanged and hands back the items and the nextCursor of
\* that page without following it.
C28_DirectListIsOnePage ==
    (ret.op \in ListOps /\ ret.kind = "ok") =>
        /\ ret.n = 1
        /\ ret.reqCursor = ret.cursor
        /\ ret.items = ret.page.items
        /\ ret.next = ret.page.next

\* ListResources was called with the cursor "a" and returned a page holding a
\* nil entry and a non-empty nextCursor.
C28_Witness ==
    /\ ret.target = "Client"
    /\ ret.op = "ListResources"
    /\ ret.kind = "ok"
    /\ ret.cursor = "a"
    /\ ret.reqCursor = "a"
    /\ NIL \in {ret.items[i] : i \in 1..Len(ret.items)}
    /\ ret.next # ""

\* C29: all samples of one RPC call carry the ambient tag set in effect when
\* the call was made plus method = the protocol method name of the call, and
\* its count and error-count samples have the value 1.
C29_SamplesCarryAmbientTags ==
    (ret.op \in RpcOps /\ Completed(ret)) =>
        \A i \in 1..Len(ret.emitted) :
            /\ ret.emitted[i].tags = ret.tags0
            /\ ret.emitted[i].method = MethodName(ret.op)
            /\ ret.emitted[i].metric \in {"mcp_request_count", "mcp_request_errors"}
               => ret.emitted[i].value = "1"

\* C31: whatever module instances are created meanwhile, every sample of a
\* call carries the metric handles of the module instance that created the
\* session the call was made on.
C31_SamplesUseOwnHandles ==
    Completed(ret) => ret.used \subseteq {OwnRegistry}

\* C32: an RPC call rejected because no session is stored returns the error to
\* the caller and emits no metric sample: it never reaches the recorder.
C32_RejectedCallEmitsNothing ==
    (ret.op \in RpcOps /\ ret.kind # "none" /\ ret.sess0 = NilSession) =>
        /\ ret.kind = "err"
        /\ ~ret.recorded
        /\ ret.emitted = <<>>
        /\ ret.pending = <<>>

\* ListTools of Module was rejected in a VU context, where a recorded call
\* would have emitted its samples.
C32_Witness ==
    /\ inVU
    /\ ncalls = 1
    /\ ret.target = "Module"
    /\ ret.op = "ListTools"
    /\ ret.sess0 = NilSession
    /\ ret.kind = "err"
    /\ ret.emitted = <<>>

\* A Connect of Module has just returned.
ConnectReturns == ret' # ret /\ ret'.target = "Module" /\ ret'.op = "Connect"

\* The metrics of the samples one recorded request emits.
RequestMetrics(failed) ==
    <<"mcp_request_duration", "mcp_request_count">>
    \o (IF failed THEN <<"mcp_request_errors">> ELSE <<>>)

\* C33 (as stated): a Connect that performs the handshake emits one duration
\* and one count sample tagged method = connect, plus one error-count sample
\* when the handshake fails; a Connect that returns early emits no sample.
C33_ConnectEmitsSamples ==
    (ret.target = "Module" /\ ret.op = "Connect" /\ ret.kind # "none") =>
        /\ Metrics(ret.emitted) =
             IF ret.sess0 # NilSession THEN <<>> ELSE RequestMetrics(ret.err)
        /\ \A i \in 1..Len(ret.emitted) : ret.emitted[i].method = connectMethodName

\* C33 (amended): a Connect that performs the handshake in a VU context emits
\* one duration and one count sample tagged method = connect, plus one
\* error-count sample when the handshake fails; in the init context, where
\* there is no VU state, it emits none; a Connect that returns early emits none.
C33_ConnectEmitsSamplesInVU ==
    [][ConnectReturns =>
          /\ Metrics(ret'.emitted) =
               IF ret'.sess0 # NilSession \/ ~inVU THEN <<>> ELSE RequestMetrics(ret'.err)
          /\ \A i \in 1..Len(ret'.emitted) : ret'.emitted[i].method = connectMethodName
          /\ ret'.pending = <<>>]_vars

\* A Connect failed its handshake in a VU context and emitted three samples.
C33_Witness ==
    /\ inVU
    /\ ret.target = "Module"
    /\ ret.op = "Connect"
    /\ ret.sess0 = NilSession
    /\ ret.err
    /\ Metrics(ret.emitted) = RequestMetrics(TRUE)
    /\ ret.emitted[3].method = connectMethodName

\* C34: the stored session handle is written only by a successful Connect on
\* an unset handle; a failed Connect leaves it unset; once set it is never
\* cleared or replaced, and every later RPC call passes the connected check.
C34_SessionWrittenOnlyBySuccessfulConnect ==
    [][/\ mSession' # mSession =>
            /\ mSession = NilSession
            /\ call.target = "Module" /\ call.op = "Connect" /\ ~call.err
            /\ ret'.kind = "ok"
       /\ (ConnectReturns /\ ret'.kind = "err") => mSession' = NilSession
       /\ (ret' # ret /\ ret'.target = "Module" /\ ret'.op \in RpcOps
           /\ mSession # NilSession) => ret'.error # "state"]_vars

\* After a successful Connect a CallTool failed and a further call returned:
\* the handle is still the one the Connect stored.
C34_Witness ==
    /\ mSession # NilSession
    /\ ret.target = "Module"
    /\ ret.op = "CallTool"
    /\ ret.kind = "err"
    /\ ret.error = "rpc"
    /\ ret.sess0 = mSession
    /\ ncalls = 2

====
